---- MODULE Spec2Model ----
(***************************************************************************)
(* Model of feed_my_wled.py: the stream loop that reads PCM blocks from    *)
(* stdin, keeps them in a bounded deque, analyses the first chunk_size     *)
(* bytes of the joined deque, smooths the level, packs a WLED audio-sync   *)
(* datagram and sends it by UDP.                                           *)
(*                                                                         *)
(* Bytes are integers 0..255, byte strings are sequences of bytes.  The     *)
(* float64 values of the program are exact fractions <<n, d>> with d > 0   *)
(* in lowest terms; they are rounded once, to binary32, when packed.       *)
(* numpy's FFT is computed for constant signals only; for any other signal *)
(* bin 0 is exact and the rest is an unknown that is fixed per signal.     *)
(***************************************************************************)
EXTENDS Integers, Sequences, FiniteSets, TLC

VARIABLES
    buffer_size,              \* [Audio] buffer_size
    chunk_size,               \* [Audio] chunk_size
    USE_MULTICAST,            \* [WLED] USE_MULTICAST
    WLED_IP_ADDRESSES,        \* [WLED] WLED_IP_ADDRESS, split at ','
    previous_smoothed_level,  \* module global, a fraction
    ring_buffer,              \* deque(maxlen = buffer_size // chunk_size)
    udp_socket,               \* "open" or "closed"
    audio_data,               \* bytes returned by the last read
    fft_result,               \* what calculate_fft returned in this cycle
    udp_packet,               \* bytes built by create_udp_packet in this cycle
    addr_index,               \* position of the unicast for loop (0-based)
    pc,                       \* control position of stream_audio_to_wled
    rfft_memo,                \* unknowns of np.fft.rfft fixed so far, per signal
    net,                      \* every sendto call so far, in call order
    closes,                   \* number of udp_socket.close() calls
    cycle,                    \* number of reads performed
    exit_by,                  \* how the loop was left
    evicted,                  \* the block the last append dropped, or <<>>
    reads                     \* what every read so far returned, in order

vars == <<buffer_size, chunk_size, USE_MULTICAST, WLED_IP_ADDRESSES,
          previous_smoothed_level, ring_buffer, udp_socket, audio_data,
          fft_result, udp_packet, addr_index, pc, rfft_memo, net, closes,
          cycle, exit_by, evicted, reads>>

(***************************************************************************)
(* Bounds of the exploration.                                              *)
(***************************************************************************)
MaxCycles == 3

\* (buffer_size, chunk_size) pairs: capacities 0, 1 and 2, with and without
\* a remainder, for a chunk too small for 16 spectrum bins and a chunk
\* large enough for them.
Configs ==
    { [buffer_size |-> 2,   chunk_size |-> 4],
      [buffer_size |-> 4,   chunk_size |-> 4],
      [buffer_size |-> 9,   chunk_size |-> 4],
      [buffer_size |-> 64,  chunk_size |-> 64],
      [buffer_size |-> 130, chunk_size |-> 64] }

\* (USE_MULTICAST, WLED_IP_ADDRESSES) pairs
Targets ==
    { [multicast |-> FALSE, addresses |-> <<"10.0.0.1">>],
      [multicast |-> FALSE, addresses |-> <<"10.0.0.1", "10.0.0.2", "10.0.0.3">>],
      [multicast |-> TRUE,  addresses |-> <<"10.0.0.1", "10.0.0.2", "10.0.0.3">>] }

\* Little-endian byte pairs of the samples the stream may carry:
\* 0, 100 and -32768.
SamplePatterns == { <<0, 0>>, <<100, 0>>, <<0, 128>> }

\* Lengths of a short read, for a read of size n.
ShortLens(n) == { l \in {1, n - 4} : l >= 1 /\ l < n }

(***************************************************************************)
(* Configuration values that are not explored.                             *)
(***************************************************************************)
sample_rate   == 44100
WLED_UDP_PORT == 11988
MULTICAST_IP  == "239.0.0.1"

(***************************************************************************)
(* Arithmetic on exact fractions.                                          *)
(***************************************************************************)
Abs(x) == IF x < 0 THEN -x ELSE x
Min(a, b) == IF a <= b THEN a ELSE b

RECURSIVE GCD(_, _)
GCD(a, b) == IF b = 0 THEN a ELSE GCD(b, a % b)

Rat(n, d) ==
    LET g == GCD(Abs(n), Abs(d))
        s == IF d < 0 THEN -1 ELSE 1
    IN  IF n = 0 THEN <<0, 1>> ELSE <<s * (n \div g), s * (d \div g)>>

RatMul(a, b) ==
    LET g1 == GCD(Abs(a[1]), b[2])
        g2 == GCD(Abs(b[1]), a[2])
        h1 == IF g1 = 0 THEN 1 ELSE g1
        h2 == IF g2 = 0 THEN 1 ELSE g2
    IN  Rat((a[1] \div h1) * (b[1] \div h2), (a[2] \div h2) * (b[2] \div h1))

RatAdd(a, b) ==
    LET g == GCD(a[2], b[2])
        l == (a[2] \div g) * b[2]
    IN  Rat(a[1] * (l \div a[2]) + b[1] * (l \div b[2]), l)

(***************************************************************************)
(* Byte strings.                                                           *)
(***************************************************************************)
\* b"\x00" * n
Zeros(n) == [i \in 1..n |-> 0]

\* n bytes of a stream that repeats the sample pattern p
StreamBytes(p, n) == [i \in 1..n |-> IF i % 2 = 1 THEN p[1] ELSE p[2]]

\* Join with the newest block first
RECURSIVE Join_Reversed(_)
Join_Reversed(q) == IF q = <<>> THEN <<>> ELSE Join_Reversed(Tail(q)) \o Head(q)

\* b"".join(q)
RECURSIVE Join(_)
Join(q) == IF q = <<>> THEN <<>> ELSE Head(q) \o Join(Tail(q))

\* b[:n]
Prefix(b, n) == SubSeq(b, 1, Min(n, Len(b)))

\* DequeAppend that takes maxlen = 0 for "no limit"
DequeAppend_ZeroIsNoLimit(q, x, maxlen) ==
    IF maxlen = 0 THEN Append(q, x)
    ELSE IF Len(q) >= maxlen THEN Append(Tail(q), x)
    ELSE Append(q, x)

\* DequeAppend without the maxlen: nothing is ever dropped
DequeAppend_Unbounded(q, x, maxlen) == Append(q, x)

\* deque.append on a deque created with maxlen
DequeAppend(q, x, maxlen) ==
    IF maxlen = 0 THEN q
    ELSE IF Len(q) >= maxlen THEN Append(Tail(q), x)
    ELSE Append(q, x)

\* the block deque.append drops, <<>> when none is dropped
DequeDropped(q, x, maxlen) ==
    IF maxlen = 0 THEN <<>>
    ELSE IF Len(q) >= maxlen THEN <<Head(q)>>
    ELSE <<>>

capacity == buffer_size \div chunk_size

(***************************************************************************)
(* calculate_fft.                                                          *)
(***************************************************************************)
Int16(u) == IF u >= 32768 THEN u - 65536 ELSE u

\* np.frombuffer(audio_chunk, dtype=np.int16); called only on an even length
FromBuffer(b) == [i \in 1..(Len(b) \div 2) |-> Int16(b[2 * i - 1] + 256 * b[2 * i])]

\* np.abs on an int16 array: the result is int16 too, so -32768 stays -32768
NpAbs16(x) == IF x = -32768 THEN -32768 ELSE Abs(x)

RECURSIVE SeqSum(_)
SeqSum(s) == IF s = <<>> THEN 0 ELSE Head(s) + SeqSum(Tail(s))

RECURSIVE SeqMax(_)
SeqMax(s) == IF Len(s) = 1 THEN s[1]
             ELSE LET m == SeqMax(Tail(s)) IN IF Head(s) >= m THEN Head(s) ELSE m

\* int(f) for a fraction f: truncation towards zero
IntTrunc(f) == IF f[1] >= 0 THEN f[1] \div f[2] ELSE -((-f[1]) \div f[2])

IsConstant(x) == \A i \in 1..Len(x) : x[i] = x[1]

\* Number of bins np.fft.rfft returns for n samples
NumBins(n) == n \div 2 + 1

\* What is not computed for np.fft.rfft of a signal that is not constant:
\* which bin above 0 carries energy, and how much.
RfftUnknowns(n) ==
    { [bin |-> 1, mag |-> 1], [bin |-> NumBins(n) - 1, mag |-> 2000000] }

\* np.abs(np.fft.rfft(x)).  Bin 0 is |sum of x|.  For a constant signal
\* every other bin is 0.  For any other signal the other bins are not
\* computed here: u says which of them carries energy.
NpAbsRfft(x, u) ==
    [k \in 1..NumBins(Len(x)) |->
        IF k = 1 THEN Abs(SeqSum(x))
        ELSE IF IsConstant(x) THEN 0
        ELSE IF k = u.bin + 1 THEN u.mag
        ELSE 0]

\* np.interp(m, (0, mx), (0, 255)) for 0 <= m <= mx, then astype(np.uint8).
\* With mx = 0 the two sample points coincide and np.interp returns the
\* value of the last one.
InterpToByte(m, mx) == IF m >= mx THEN 255 ELSE (m * 255) \div mx

\* np.argmax: 0-based index of the first maximum
ArgMax(s) == (CHOOSE i \in 1..Len(s) :
                 /\ \A j \in 1..Len(s) : s[j] <= s[i]
                 /\ \A j \in 1..(i - 1) : s[j] < s[i]) - 1

\* FftFailed with an element [0] that is not None
FftFailed_NotNone ==
    [valid |-> TRUE, fft_values |-> <<>>, raw_level |-> <<0, 1>>,
     peak_level |-> 0, fft_magnitude_sum |-> <<0, 1>>,
     fft_peak_frequency |-> <<0, 1>>]

\* The value calculate_fft returns when its except branch runs.  The
\* caller only looks at element [0], which is None.
FftFailed ==
    [valid |-> FALSE, fft_values |-> <<>>, raw_level |-> <<0, 1>>,
     peak_level |-> 0, fft_magnitude_sum |-> <<0, 1>>,
     fft_peak_frequency |-> <<0, 1>>]

\* np.frombuffer raises on a length that is no multiple of 2; np.max raises
\* on an empty array.
FftRaises(audio_chunk) == Len(audio_chunk) % 2 # 0 \/ Len(audio_chunk) = 0

calculate_fft(audio_chunk, rate, u) ==
    IF FftRaises(audio_chunk) THEN FftFailed
    ELSE
      LET x    == FromBuffer(audio_chunk)
          n    == Len(x)
          a    == [i \in 1..n |-> NpAbs16(x[i])]
          mags == NpAbsRfft(x, u)
          mx   == SeqMax(mags)
          norm == [k \in 1..Len(mags) |-> InterpToByte(mags[k], mx)]
      IN  [valid |-> TRUE,
           fft_values |-> SubSeq(norm, 1, Min(16, Len(norm))),
           raw_level |-> Rat(SeqSum(a), n),
           peak_level |-> IntTrunc(Rat(SeqMax(a) * 255, 32767)),
           fft_magnitude_sum |-> Rat(SeqSum(mags), 1),
           fft_peak_frequency |-> RatMul(Rat(ArgMax(mags), 1), Rat(rate, n))]

(***************************************************************************)
(* create_udp_packet: struct.pack('<6s2B2fBB16B2B2f', ...).                *)
(***************************************************************************)
\* Header without the padding byte of '6s'
Header_Unpadded == <<48, 48, 48, 48, 50>>

\* '6s' of b'00002': the five characters, padded with a zero byte
Header == <<48, 48, 48, 48, 50, 0>>

\* 'B'
PackB(v) == <<v>>

RECURSIVE FloatNorm(_, _, _)
FloatNorm(p, q, e) ==
    IF p >= 2 * q THEN FloatNorm(p, 2 * q, e + 1)
    ELSE IF p < q THEN FloatNorm(2 * p, q, e - 1)
    ELSE <<p, q, e>>

RECURSIVE FloatBits(_, _, _, _)
FloatBits(r, q, n, acc) ==
    IF n = 0 THEN <<acc, r>>
    ELSE IF 2 * r >= q THEN FloatBits(2 * r - q, q, n - 1, 2 * acc + 1)
    ELSE FloatBits(2 * r, q, n - 1, 2 * acc)

\* 'f' with '<': the IEEE 754 binary32 nearest to the fraction f (ties to
\* even), least significant byte first.
PackF(f) ==
    IF f[1] = 0 THEN <<0, 0, 0, 0>>
    ELSE
      LET nm   == FloatNorm(Abs(f[1]), f[2], 0)
          br   == FloatBits(nm[1] - nm[2], nm[2], 23, 1)
          up   == \/ 2 * br[2] > nm[2]
                  \/ (2 * br[2] = nm[2] /\ br[1] % 2 = 1)
          m0   == IF up THEN br[1] + 1 ELSE br[1]
          m    == IF m0 = 16777216 THEN 8388608 ELSE m0
          e    == IF m0 = 16777216 THEN nm[3] + 1 ELSE nm[3]
          frac == m - 8388608
          bexp == e + 127
          sign == IF f[1] < 0 THEN 1 ELSE 0
      IN  <<frac % 256,
            (frac \div 256) % 256,
            (bexp % 2) * 128 + frac \div 65536,
            sign * 128 + bexp \div 2>>

RECURSIVE PackBytes(_)
PackBytes(vs) == IF vs = <<>> THEN <<>> ELSE PackB(Head(vs)) \o PackBytes(Tail(vs))

\* struct.pack raises struct.error when the number of values differs from
\* the number of format items or when a 'B' value is outside 0..255.
PackRaises(fft_values, peak_level) ==
    \/ Len(fft_values) # 16
    \/ peak_level < 0 \/ peak_level > 255
    \/ \E i \in 1..Len(fft_values) : fft_values[i] < 0 \/ fft_values[i] > 255

\* create_udp_packet with the two level floats in the other order
create_udp_packet_Swapped(fft_values, raw_level, smoothed_level, peak_level, fft_magnitude_sum, fft_peak_frequency) ==
    Header
    \o PackB(0) \o PackB(0)
    \o PackF(smoothed_level)
    \o PackF(raw_level)
    \o PackB(peak_level)
    \o PackB(0)
    \o PackBytes(fft_values)
    \o PackB(0) \o PackB(0)
    \o PackF(fft_magnitude_sum)
    \o PackF(fft_peak_frequency)

create_udp_packet(fft_values, raw_level, smoothed_level, peak_level, fft_magnitude_sum, fft_peak_frequency) ==
    Header
    \o PackB(0) \o PackB(0)
    \o PackF(raw_level)
    \o PackF(smoothed_level)
    \o PackB(peak_level)
    \o PackB(0)
    \o PackBytes(fft_values)
    \o PackB(0) \o PackB(0)
    \o PackF(fft_magnitude_sum)
    \o PackF(fft_peak_frequency)

(***************************************************************************)
(* Module level: configuration is read, the globals are created and the    *)
(* socket is opened.                                                       *)
(***************************************************************************)
Init ==
    /\ \E c \in Configs :
          /\ buffer_size = c.buffer_size
          /\ chunk_size = c.chunk_size
    /\ \E t \in Targets :
          /\ USE_MULTICAST = t.multicast
          /\ WLED_IP_ADDRESSES = t.addresses
    /\ previous_smoothed_level = <<0, 1>>
    /\ ring_buffer = <<>>
    /\ udp_socket = "open"
    /\ audio_data = <<>>
    /\ fft_result = FftFailed
    /\ udp_packet = <<>>
    /\ addr_index = 0
    /\ pc = "init"
    /\ rfft_memo = {}
    /\ net = <<>>
    /\ closes = 0
    /\ cycle = 0
    /\ exit_by = "none"
    /\ evicted = <<>>
    /\ reads = <<>>

config == <<buffer_size, chunk_size, USE_MULTICAST, WLED_IP_ADDRESSES>>

InLoop == pc \in {"read", "fft", "smooth", "pack", "send"}

\* Finally without udp_socket.close()
Finally_NoClose(why) ==
    /\ udp_socket' = udp_socket
    /\ closes' = closes
    /\ pc' = "done"
    /\ exit_by' = why

\* The finally clause, reached by an exception that leaves the while loop.
Finally(why) ==
    /\ udp_socket' = "closed"
    /\ closes' = closes + 1
    /\ pc' = "done"
    /\ exit_by' = why

\* InitBufferLoop that appends nothing
InitBufferLoop_NoFill(q, n) == q

\* for _ in range(ring_buffer.maxlen): ring_buffer.append(b"\x00" * chunk_size)
RECURSIVE InitBufferLoop(_, _)
InitBufferLoop(q, n) ==
    IF n = 0 THEN q
    ELSE InitBufferLoop(DequeAppend(q, Zeros(chunk_size), capacity), n - 1)

InitBuffer ==
    /\ pc = "init"
    /\ ring_buffer' = InitBufferLoop(ring_buffer, capacity)
    /\ pc' = "read"
    /\ UNCHANGED <<config, reads, previous_smoothed_level, udp_socket, audio_data,
                   fft_result, udp_packet, addr_index, rfft_memo, net, closes,
                   cycle, exit_by, evicted>>

\* The bytes sys.stdin.buffer.read(n) may return
ReadResults(n) ==
    {<<>>} \cup { StreamBytes(p, l) : p \in SamplePatterns,
                                      l \in ShortLens(n) \cup {n} }

\* audio_data = sys.stdin.buffer.read(chunk_size)
\* if audio_data: ring_buffer.append(audio_data)
Read ==
    /\ pc = "read"
    /\ cycle < MaxCycles
    /\ \E data \in ReadResults(chunk_size) :
          /\ audio_data' = data
          /\ reads' = Append(reads, data)
          /\ IF data # <<>>
             THEN /\ ring_buffer' = DequeAppend(ring_buffer, data, capacity)
                  /\ evicted' = DequeDropped(ring_buffer, data, capacity)
             ELSE /\ ring_buffer' = ring_buffer
                  /\ evicted' = <<>>
    /\ cycle' = cycle + 1
    /\ pc' = "fft"
    /\ UNCHANGED <<config, previous_smoothed_level, udp_socket, fft_result,
                   udp_packet, addr_index, rfft_memo, net, closes, exit_by>>

\* combined_data = b"".join(ring_buffer)
combined_data == Join(ring_buffer)

\* The argument of calculate_fft
AnalysedChunk == Prefix(combined_data, chunk_size)

\* True when np.fft.rfft is reached with a signal that is not constant
NeedsUnknown(chunk) == ~FftRaises(chunk) /\ ~IsConstant(FromBuffer(chunk))

NoUnknown == [bin |-> 0, mag |-> 0]

\* fft_result = calculate_fft(combined_data[:chunk_size], sample_rate)
\* if fft_result[0] is None: continue
CalculateFft ==
    /\ pc = "fft"
    /\ LET chunk == AnalysedChunk
           x     == FromBuffer(chunk)
           known == { e \in rfft_memo : e.x = x }
       IN  \E u \in (IF ~NeedsUnknown(chunk) THEN {NoUnknown}
                     ELSE IF known # {} THEN { e.u : e \in known }
                     ELSE RfftUnknowns(Len(x))) :
              /\ fft_result' = calculate_fft(chunk, sample_rate, u)
              /\ rfft_memo' = IF NeedsUnknown(chunk)
                              THEN rfft_memo \cup {[x |-> x, u |-> u]}
                              ELSE rfft_memo
    /\ pc' = IF fft_result'.valid THEN "smooth" ELSE "read"
    /\ UNCHANGED <<config, reads, previous_smoothed_level, ring_buffer, udp_socket,
                   audio_data, udp_packet, addr_index, net, closes, cycle,
                   exit_by, evicted>>

\* smoothed_level with the two weights exchanged
smoothed_level_Swapped(prev, raw_level) ==
    RatAdd(RatMul(<<1, 5>>, prev), RatMul(<<4, 5>>, raw_level))

\* smoothed_level = (0.8 * previous_smoothed_level) + (0.2 * raw_level)
smoothed_level(prev, raw_level) ==
    RatAdd(RatMul(<<4, 5>>, prev), RatMul(<<1, 5>>, raw_level))

\* Smooth that leaves the level alone when the read returned nothing
Smooth_SkipOnEmpty ==
    /\ pc = "smooth"
    /\ previous_smoothed_level' =
          IF audio_data = <<>> THEN previous_smoothed_level
          ELSE smoothed_level(previous_smoothed_level, fft_result.raw_level)
    /\ pc' = "pack"
    /\ UNCHANGED <<config, reads, ring_buffer, udp_socket, audio_data, fft_result,
                   udp_packet, addr_index, rfft_memo, net, closes, cycle,
                   exit_by, evicted>>

\* previous_smoothed_level = smoothed_level
Smooth ==
    /\ pc = "smooth"
    /\ previous_smoothed_level' =
          smoothed_level(previous_smoothed_level, fft_result.raw_level)
    /\ pc' = "pack"
    /\ UNCHANGED <<config, reads, ring_buffer, udp_socket, audio_data, fft_result,
                   udp_packet, addr_index, rfft_memo, net, closes, cycle,
                   exit_by, evicted>>

\* udp_packet = create_udp_packet(...); a struct.error is not caught in the
\* loop and reaches the finally clause.
CreatePacket ==
    /\ pc = "pack"
    /\ IF PackRaises(fft_result.fft_values, fft_result.peak_level)
       THEN /\ Finally("struct.error")
            /\ UNCHANGED <<udp_packet, addr_index>>
       ELSE /\ udp_packet' = create_udp_packet(fft_result.fft_values,
                                fft_result.raw_level, previous_smoothed_level,
                                fft_result.peak_level,
                                fft_result.fft_magnitude_sum,
                                fft_result.fft_peak_frequency)
            /\ addr_index' = 0
            /\ pc' = "send"
            /\ UNCHANGED <<udp_socket, closes, exit_by>>
    /\ UNCHANGED <<config, reads, previous_smoothed_level, ring_buffer, audio_data,
                   fft_result, rfft_memo, net, cycle, evicted>>

\* Destinations with the address list walked backwards
Destinations_Reversed ==
    IF USE_MULTICAST THEN << <<MULTICAST_IP, WLED_UDP_PORT>> >>
    ELSE [i \in 1..Len(WLED_IP_ADDRESSES) |->
             <<WLED_IP_ADDRESSES[Len(WLED_IP_ADDRESSES) + 1 - i], WLED_UDP_PORT>>]

\* The destinations of one cycle, in the order of the sendto calls
Destinations ==
    IF USE_MULTICAST THEN << <<MULTICAST_IP, WLED_UDP_PORT>> >>
    ELSE [i \in 1..Len(WLED_IP_ADDRESSES) |-> <<WLED_IP_ADDRESSES[i], WLED_UDP_PORT>>]

SendEntry(ok) ==
    [cycle |-> cycle, dest |-> Destinations[addr_index + 1],
     data |-> udp_packet, ok |-> ok, socket |-> udp_socket]

\* udp_socket.sendto(udp_packet, (ip, WLED_UDP_PORT)) returns
SendOk ==
    /\ pc = "send"
    /\ net' = Append(net, SendEntry(TRUE))
    /\ IF addr_index + 1 < Len(Destinations)
       THEN /\ addr_index' = addr_index + 1
            /\ pc' = "send"
       ELSE /\ addr_index' = 0
            /\ pc' = "read"
    /\ UNCHANGED <<config, reads, previous_smoothed_level, ring_buffer, udp_socket,
                   audio_data, fft_result, udp_packet, rfft_memo, closes,
                   cycle, exit_by, evicted>>

\* udp_socket.sendto raises OSError: not caught in the loop, it reaches the
\* finally clause.
SendRaises ==
    /\ pc = "send"
    /\ net' = Append(net, SendEntry(FALSE))
    /\ Finally("OSError")
    /\ UNCHANGED <<config, reads, previous_smoothed_level, ring_buffer, audio_data,
                   fft_result, udp_packet, addr_index, rfft_memo, cycle,
                   evicted>>

\* KeyboardInterrupt inside the try statement: except clause, then finally
Interrupt ==
    /\ InLoop
    /\ Finally("KeyboardInterrupt")
    /\ UNCHANGED <<config, reads, previous_smoothed_level, ring_buffer, audio_data,
                   fft_result, udp_packet, addr_index, rfft_memo, net, cycle,
                   evicted>>

\* KeyboardInterrupt while the buffer is filled, before the try statement
InterruptBeforeTry ==
    /\ pc = "init"
    /\ pc' = "aborted"
    /\ exit_by' = "KeyboardInterrupt"
    /\ UNCHANGED <<config, reads, previous_smoothed_level, ring_buffer, udp_socket,
                   audio_data, fft_result, udp_packet, addr_index, rfft_memo,
                   net, closes, cycle, evicted>>

Next ==
    \/ InitBuffer
    \/ Read
    \/ CalculateFft
    \/ Smooth
    \/ CreatePacket
    \/ SendOk
    \/ SendRaises
    \/ Interrupt
    \/ InterruptBeforeTry

Spec == Init /\ [][Next]_vars

(***************************************************************************)
(* create_udp_packet on its own: the loop is entered at the call of line   *)
(* 156 with analysis results and a smoothed level drawn from the sets      *)
(* below, all within the ranges the format accepts.                        *)
(***************************************************************************)
EncoderBands ==
    { [i \in 1..16 |-> i - 1],
      [i \in 1..16 |-> 255],
      [i \in 1..16 |-> 0],
      [i \in 1..16 |-> 256 - 16 * i],
      [i \in 1..16 |-> IF i = 1 THEN 255 ELSE 0] }

EncoderPeaks == {0, 1, 127, 200, 255}

EncoderRawLevels == { <<0, 1>>, <<3, 2>>, <<100, 1>>, <<-32768, 1>> }

EncoderSmoothedLevels == { <<0, 1>>, <<6, 5>>, <<64, 5>>, <<20, 1>> }

EncoderMagnitudeSums == { <<0, 1>>, <<42, 1>>, <<983040, 1>> }

EncoderPeakFrequencies == { <<0, 1>>, <<440, 1>>, <<11025, 8>> }

InitEncoder ==
    /\ buffer_size = 64
    /\ chunk_size = 64
    /\ USE_MULTICAST = TRUE
    /\ WLED_IP_ADDRESSES = <<"10.0.0.1">>
    /\ previous_smoothed_level \in EncoderSmoothedLevels
    /\ ring_buffer = <<Zeros(64)>>
    /\ udp_socket = "open"
    /\ audio_data = <<>>
    /\ \E b \in EncoderBands, p \in EncoderPeaks, r \in EncoderRawLevels,
          m \in EncoderMagnitudeSums, f \in EncoderPeakFrequencies :
          fft_result = [valid |-> TRUE, fft_values |-> b, raw_level |-> r,
                        peak_level |-> p, fft_magnitude_sum |-> m,
                        fft_peak_frequency |-> f]
    /\ udp_packet = <<>>
    /\ addr_index = 0
    /\ pc = "pack"
    /\ rfft_memo = {}
    /\ net = <<>>
    /\ closes = 0
    /\ cycle = 1
    /\ exit_by = "none"
    /\ evicted = <<>>
    /\ reads = <<>>

NextEncoder == CreatePacket

SpecEncoder == InitEncoder /\ [][NextEncoder]_vars

(***************************************************************************)
(* The loop with windows of one, two and three blocks of 64 bytes, in      *)
(* multicast mode.                                                         *)
(***************************************************************************)
LagConfigs ==
    { [buffer_size |-> 64,  chunk_size |-> 64],
      [buffer_size |-> 130, chunk_size |-> 64],
      [buffer_size |-> 200, chunk_size |-> 64] }

InitLag ==
    /\ \E c \in LagConfigs :
          /\ buffer_size = c.buffer_size
          /\ chunk_size = c.chunk_size
    /\ USE_MULTICAST = TRUE
    /\ WLED_IP_ADDRESSES = <<"10.0.0.1">>
    /\ previous_smoothed_level = <<0, 1>>
    /\ ring_buffer = <<>>
    /\ udp_socket = "open"
    /\ audio_data = <<>>
    /\ fft_result = FftFailed
    /\ udp_packet = <<>>
    /\ addr_index = 0
    /\ pc = "init"
    /\ rfft_memo = {}
    /\ net = <<>>
    /\ closes = 0
    /\ cycle = 0
    /\ exit_by = "none"
    /\ evicted = <<>>
    /\ reads = <<>>

SpecLag == InitLag /\ [][Next]_vars

(***************************************************************************)
(* Reading a packet back: struct.unpack of one 'f' item.                   *)
(***************************************************************************)
RECURSIVE Pow2(_)
Pow2(n) == IF n = 0 THEN 1 ELSE 2 * Pow2(n - 1)

\* m / 2^k with the common factors of 2 removed
RECURSIVE Scale2(_, _)
Scale2(m, k) ==
    IF k > 0 /\ m % 2 = 0 THEN Scale2(m \div 2, k - 1) ELSE <<m, Pow2(k)>>

\* The value of the binary32 whose little-endian bytes are b (normal numbers
\* and zero)
DecodeF(b) ==
    LET frac == b[1] + 256 * b[2] + 65536 * (b[3] % 128)
        bexp == (b[3] \div 128) + 2 * (b[4] % 128)
        sign == IF b[4] >= 128 THEN -1 ELSE 1
        m    == 8388608 + frac
    IN  IF bexp = 0 /\ frac = 0 THEN <<0, 1>>
        ELSE IF bexp >= 150 THEN <<sign * m * Pow2(bexp - 150), 1>>
        ELSE LET q == Scale2(m, 150 - bexp) IN <<sign * q[1], q[2]>>

RatAbs(a) == <<Abs(a[1]), a[2]>>
RatNeg(a) == <<-a[1], a[2]>>
RatLeq(a, b) == a[1] * b[2] <= b[1] * a[2]

\* d is v rounded to 24 significant bits: |d - v| <= |v| / 2^24
RoundedToBinary32(d, v) ==
    RatLeq(RatAbs(RatAdd(d, RatNeg(v))), RatMul(RatAbs(v), <<1, 16777216>>))

(***************************************************************************)
(* Properties.                                                             *)
(***************************************************************************)
Last(s) == s[Len(s)]

\* The sendto calls of cycle c, as indices of net
CallsOf(c) == { i \in DOMAIN net : net[i].cycle = c }

\* A step of Read that pushes (the read returned at least one byte)
PushStep == pc = "read" /\ pc' = "fft" /\ audio_data' # <<>>

\* C1: once the buffer is filled, the window holds exactly
\* capacity = buffer_size // chunk_size blocks after any read, and a push
\* into the full window drops exactly the oldest block and keeps the others
\* in insertion order, the pushed block last.
C1_WindowHoldsCapacity ==
    [][ /\ pc' \in {"read", "fft", "smooth", "pack", "send", "done"}
            => Len(ring_buffer') = capacity'
        /\ (PushStep /\ capacity >= 1)
            => /\ evicted' = <<Head(ring_buffer)>>
               /\ SubSeq(ring_buffer', 1, capacity - 1) = Tail(ring_buffer)
               /\ Last(ring_buffer') = audio_data'
      ]_vars

\* C1 witness: a short read has been pushed into a full window of two
\* different blocks, and a block was dropped.
C1_Witness ==
    /\ pc = "fft"
    /\ capacity = 2
    /\ cycle >= 2
    /\ audio_data # <<>>
    /\ Len(audio_data) < chunk_size
    /\ evicted # <<>>
    /\ ring_buffer[1] # ring_buffer[2]

\* C2 as stated: whenever the analyzer is about to run with capacity >= 1,
\* the bytes handed to it equal the most recently pushed block.
C2_AnalysedIsNewest ==
    (pc = "fft" /\ capacity >= 1) => AnalysedChunk = Last(ring_buffer)

\* C2 amended: whenever the analyzer is about to run with capacity >= 1, the
\* bytes handed to it start with the oldest block of the window, are exactly
\* that block when it has chunk_size bytes, and are the most recently pushed
\* block when capacity = 1.
C2_AnalysedIsOldest ==
    (pc = "fft" /\ capacity >= 1) =>
        /\ Prefix(AnalysedChunk, Len(ring_buffer[1])) = ring_buffer[1]
        /\ Len(ring_buffer[1]) = chunk_size => AnalysedChunk = ring_buffer[1]
        /\ capacity = 1 => AnalysedChunk = Last(ring_buffer)

\* C2 witness: the analyzer is about to run on a window of two different
\* blocks, the newer one just pushed.
C2_Witness ==
    /\ pc = "fft"
    /\ capacity = 2
    /\ audio_data # <<>>
    /\ Last(ring_buffer) = audio_data
    /\ ring_buffer[1] # ring_buffer[2]
    /\ AnalysedChunk = ring_buffer[1]

\* C3 as stated: a read of fewer than chunk_size bytes, empty or not, leaves
\* the window's blocks as they were.
C3_ShortReadKeepsWindow ==
    [][ (pc = "read" /\ pc' = "fft" /\ Len(audio_data') < chunk_size)
            => ring_buffer' = ring_buffer ]_vars

\* C4: when calculate_fft fails in a cycle, that cycle performs no sendto,
\* previous_smoothed_level keeps its value and the loop goes to the next read.
C4_FailedAnalysisSkipsCycle ==
    [][ (pc = "fft" /\ FftRaises(AnalysedChunk) /\ pc' # "done")
            => /\ pc' = "read"
               /\ ~fft_result'.valid
               /\ previous_smoothed_level' = previous_smoothed_level
               /\ net' = net
               /\ CallsOf(cycle) = {}
               /\ udp_socket' = "open"
      ]_vars

\* C4 witness: a cycle on a non-empty window has been skipped after the
\* analysis failed, and the loop is at its next read.
C4_Witness ==
    /\ pc = "read"
    /\ cycle >= 1
    /\ capacity >= 1
    /\ ~fft_result.valid
    /\ FftRaises(AnalysedChunk)
    /\ CallsOf(cycle) = {}

\* C5 as stated: in unicast mode a failed sendto does not end the loop, and
\* once the cycle is over every configured address has had its sendto.
C5_SendFailureIsLocal ==
    ~USE_MULTICAST =>
        \A i \in DOMAIN net :
            ~net[i].ok =>
                /\ exit_by # "OSError"
                /\ pc \in {"read", "done"} =>
                      \A d \in 1..Len(Destinations) :
                          \E j \in CallsOf(net[i].cycle) :
                              net[j].dest = Destinations[d]

\* C6: the socket is open while the loop runs, is closed exactly once when
\* the loop has been left, whatever ended it, and every sendto was made on
\* the open socket.
C6_SocketClosedOnce ==
    /\ InLoop => (udp_socket = "open" /\ closes = 0)
    /\ pc = "done" => (udp_socket = "closed" /\ closes = 1)
    /\ closes <= 1
    /\ \A i \in DOMAIN net : net[i].socket = "open"

\* C6 witness: the loop was left by an error after packets had been sent,
\* and the socket has been closed.
C6_Witness ==
    /\ pc = "done"
    /\ exit_by \in {"OSError", "struct.error"}
    /\ Len(net) >= 2
    /\ udp_socket = "closed"
    /\ closes = 1

C8_OnlyInterruptEndsLoop ==
    pc = "done" => exit_by # "struct.error"

\* C9 as stated: a cycle whose read returned no bytes does not end the loop
\* (only an interrupt does), and when its analysis succeeded it has sent a
\* packet by the time of the next read.
C9_EmptyReadNotTerminal ==
    (cycle >= 1 /\ audio_data = <<>>) =>
        /\ pc = "done" => exit_by = "KeyboardInterrupt"
        /\ (pc = "read" /\ fft_result.valid) => CallsOf(cycle) # {}

\* C10 as stated: every packet built or sent has exactly 62 bytes.
C10_PacketIs62Bytes ==
    /\ pc = "send" => Len(udp_packet) = 62
    /\ \A i \in DOMAIN net : Len(net[i].data) = 62

\* C10 amended: every packet built or sent has exactly 44 bytes.
C10_PacketIs44Bytes ==
    /\ pc = "send" => Len(udp_packet) = 44
    /\ \A i \in DOMAIN net : Len(net[i].data) = 44

\* C10 witness: a packet has been built from a block that is not silence
\* and has been sent.
C10_Witness ==
    /\ net # <<>>
    /\ Last(net).ok
    /\ fft_result.raw_level # <<0, 1>>
    /\ Last(net).data = udp_packet
    /\ udp_packet # <<>>


\* The fields of a packet p that are not floats are those of the analysis
\* result r, at the offsets of the wire format (offsets from 0: header 0..5,
\* gap 6..7, peak 16, zero 17, bands 18..33, gap 34..35).
PacketIntegerFields(p, r) ==
    /\ Len(p) = 44
    /\ SubSeq(p, 1, 6) = <<48, 48, 48, 48, 50, 0>>
    /\ p[7] = 0 /\ p[8] = 0
    /\ p[17] = r.peak_level
    /\ p[18] = 0
    /\ SubSeq(p, 19, 34) = r.fft_values
    /\ p[35] = 0 /\ p[36] = 0

\* C11 as stated: for bands and peak in 0..255, decoding the packet at the
\* stated offsets gives back every field: header, zero bytes, peak, bands,
\* and the four floats (raw level at 8, smoothed level at 12, magnitude sum
\* at 36, peak frequency at 40) with the values that were encoded.
C11_DecodeRecoversFields ==
    pc = "send" =>
        /\ PacketIntegerFields(udp_packet, fft_result)
        /\ DecodeF(SubSeq(udp_packet, 9, 12)) = fft_result.raw_level
        /\ DecodeF(SubSeq(udp_packet, 13, 16)) = previous_smoothed_level
        /\ DecodeF(SubSeq(udp_packet, 37, 40)) = fft_result.fft_magnitude_sum
        /\ DecodeF(SubSeq(udp_packet, 41, 44)) = fft_result.fft_peak_frequency

\* C11 amended: the header, the zero bytes, the peak and the bands are
\* recovered exactly; each float is recovered as the encoded value rounded
\* to binary32 (24 significant bits), not as the value itself.
C11_DecodeRecoversRounded ==
    pc = "send" =>
        /\ PacketIntegerFields(udp_packet, fft_result)
        /\ RoundedToBinary32(DecodeF(SubSeq(udp_packet, 9, 12)),
                             fft_result.raw_level)
        /\ RoundedToBinary32(DecodeF(SubSeq(udp_packet, 13, 16)),
                             previous_smoothed_level)
        /\ RoundedToBinary32(DecodeF(SubSeq(udp_packet, 37, 40)),
                             fft_result.fft_magnitude_sum)
        /\ RoundedToBinary32(DecodeF(SubSeq(udp_packet, 41, 44)),
                             fft_result.fft_peak_frequency)

\* C11 witness: the packet of bands 0..15, raw 1.5, smoothed 1.2, peak 200,
\* magnitude sum 42 and peak frequency 440 has been built; its smoothed
\* level reads back as a value other than 1.2.
C11_Witness ==
    /\ pc = "send"
    /\ fft_result.fft_values = [i \in 1..16 |-> i - 1]
    /\ fft_result.peak_level = 200
    /\ fft_result.raw_level = <<3, 2>>
    /\ previous_smoothed_level = <<6, 5>>
    /\ fft_result.fft_magnitude_sum = <<42, 1>>
    /\ fft_result.fft_peak_frequency = <<440, 1>>
    /\ DecodeF(SubSeq(udp_packet, 9, 12)) = <<3, 2>>
    /\ DecodeF(SubSeq(udp_packet, 13, 16)) # <<6, 5>>


\* The samples calculate_fft was called on in this cycle (the window does
\* not change between the read and the next read)
AnalysedSamples == FromBuffer(AnalysedChunk)

\* True when calculate_fft has just returned a result for a chunk of zeros
AnalysedSilence ==
    /\ pc = "smooth"
    /\ AnalysedChunk = Zeros(Len(AnalysedChunk))

\* C12 as stated: for an all-zero block the analyzer succeeds with raw
\* level 0, peak level 0, every band value 0, magnitude sum 0 and peak
\* frequency 0.
C12_SilenceGivesZeros ==
    AnalysedSilence =>
        /\ fft_result.valid
        /\ fft_result.raw_level = <<0, 1>>
        /\ fft_result.peak_level = 0
        /\ \A k \in DOMAIN fft_result.fft_values : fft_result.fft_values[k] = 0
        /\ fft_result.fft_magnitude_sum = <<0, 1>>
        /\ fft_result.fft_peak_frequency = <<0, 1>>

\* round(n / d) for n >= 0, d > 0
RoundDiv(n, d) == (2 * n + d) \div (2 * d)

Clamp255(v) == IF v < 0 THEN 0 ELSE IF v > 255 THEN 255 ELSE v

\* C13 as stated: for every analysed block, peak_level is
\* round(max(abs(samples)) / 32767 * 255) clamped to 0..255, with abs the
\* absolute value of the sample (32768 for -32768).
C13_PeakRoundedAndClamped ==
    pc = "smooth" =>
        LET x == AnalysedSamples
            m == SeqMax([i \in 1..Len(x) |-> Abs(x[i])])
        IN  /\ fft_result.peak_level = Clamp255(RoundDiv(m * 255, 32767))
            /\ fft_result.peak_level \in 0..255

\* C15 as stated: when the analysed block gives fewer than 16 spectrum
\* bins, the analyzer still delivers 16 bands, the missing ones 0, and the
\* cycle does not end in the encoder.
C15_MissingBandsPadded ==
    /\ (pc = "smooth" /\ NumBins(Len(AnalysedSamples)) < 16) =>
          /\ Len(fft_result.fft_values) = 16
          /\ \A k \in (NumBins(Len(AnalysedSamples)) + 1)..16 :
                fft_result.fft_values[k] = 0
    /\ (pc = "done" /\ exit_by = "struct.error") =>
          NumBins(Len(AnalysedSamples)) >= 16

\* C16 as stated: every sendto of multicast mode goes to the multicast
\* group and port, none of unicast mode does, and in multicast mode a cycle
\* whose analysis succeeded and that was not interrupted has performed
\* exactly one sendto when it is over.
C16_MulticastOneSend ==
    /\ \A i \in DOMAIN net :
          (net[i].dest = <<MULTICAST_IP, WLED_UDP_PORT>>) <=> USE_MULTICAST
    /\ ( /\ USE_MULTICAST
         /\ cycle >= 1
         /\ fft_result.valid
         /\ pc = "read" \/ (pc = "done" /\ exit_by # "KeyboardInterrupt") )
       => Cardinality(CallsOf(cycle)) = 1


\* The raw level of the packets sent in cycle c was r
SentRaw(c, r) ==
    /\ CallsOf(c) # {}
    /\ \A i \in CallsOf(c) : SubSeq(net[i].data, 9, 12) = PackF(r)

\* Raw levels 100, 0, 0 in the first three cycles give the smoothed levels
\* 20, 16, 12.8
LiteralSmoothing ==
    /\ (pc = "pack" /\ cycle = 1 /\ fft_result.raw_level = <<100, 1>>)
          => previous_smoothed_level = <<20, 1>>
    /\ (pc = "pack" /\ cycle = 2 /\ SentRaw(1, <<100, 1>>)
            /\ fft_result.raw_level = <<0, 1>>)
          => previous_smoothed_level = <<16, 1>>
    /\ (pc = "pack" /\ cycle = 3 /\ SentRaw(1, <<100, 1>>)
            /\ SentRaw(2, <<0, 1>>) /\ fft_result.raw_level = <<0, 1>>)
          => previous_smoothed_level = <<64, 5>>

\* C14: previous_smoothed_level is 0 before the first cycle; the step after
\* a successful analysis, and no other step, changes it, to
\* 0.8 * (its value) + 0.2 * (the raw level of the cycle), so that 5 times
\* the new value is 4 times the old one plus the raw level; that step is
\* taken once in every cycle whose analysis succeeded, before the packet is
\* built; the packet carries the new value as its float at offset 12; raw
\* levels 100, 0, 0 give 20, 16, 12.8.
C14_SmoothingRecurrence ==
    /\ [][ /\ cycle = 0 => previous_smoothed_level = <<0, 1>>
           /\ IF pc = "smooth" /\ pc' = "pack"
              THEN RatMul(<<5, 1>>, previous_smoothed_level') =
                      RatAdd(RatMul(<<4, 1>>, previous_smoothed_level),
                             fft_result.raw_level)
              ELSE previous_smoothed_level' = previous_smoothed_level
           /\ pc' = "smooth" => (pc = "fft" /\ fft_result'.valid)
           /\ (pc = "fft" /\ pc' # "done" /\ fft_result'.valid) => pc' = "smooth"
           /\ (pc = "smooth" /\ pc' # "done") => pc' = "pack"
           /\ (pc = "pack" /\ pc' = "send") =>
                 SubSeq(udp_packet', 13, 16) = PackF(previous_smoothed_level')
         ]_vars
    /\ []LiteralSmoothing

\* C14 witness: the third cycle's packet carries 12.8 after raw levels
\* 100, 0, 0.
C14_Witness ==
    /\ pc = "send"
    /\ cycle = 3
    /\ SentRaw(1, <<100, 1>>)
    /\ SentRaw(2, <<0, 1>>)
    /\ fft_result.raw_level = <<0, 1>>
    /\ previous_smoothed_level = <<64, 5>>
    /\ SubSeq(udp_packet, 13, 16) = <<205, 204, 76, 65>>


\* Every read so far returned chunk_size bytes
OnlyFullReads == \A i \in DOMAIN reads : Len(reads[i]) = chunk_size

\* C17: with capacity c >= 1 and only full-size reads, the bytes analysed
\* in the cycle of the n-th read are the block of read n - c + 1, and a
\* silence block while n < c; they are the oldest block of the window.
C17_AnalysedLagsInput ==
    (pc = "fft" /\ capacity >= 1 /\ OnlyFullReads) =>
        /\ AnalysedChunk = IF cycle >= capacity
                           THEN reads[cycle - capacity + 1]
                           ELSE Zeros(chunk_size)
        /\ AnalysedChunk = ring_buffer[1]

\* C17 witness: with capacity 3 the third cycle is about to analyse the
\* block of the first read, which differs from the two read after it.
C17_Witness ==
    /\ pc = "fft"
    /\ capacity = 3
    /\ cycle = 3
    /\ OnlyFullReads
    /\ reads[1] # Zeros(chunk_size)
    /\ reads[1] # reads[2]
    /\ reads[1] # reads[3]
    /\ AnalysedChunk = reads[1]

\* C18: with buffer_size < chunk_size (capacity 0) the window is empty
\* after every read, every analysis fails, nothing is sent and
\* previous_smoothed_level stays 0.
C18_CapacityZeroSendsNothing ==
    capacity = 0 =>
        /\ ring_buffer = <<>>
        /\ AnalysedChunk = <<>>
        /\ ~fft_result.valid
        /\ pc \notin {"smooth", "pack", "send"}
        /\ net = <<>>
        /\ udp_packet = <<>>
        /\ previous_smoothed_level = <<0, 1>>
        /\ exit_by \in {"none", "KeyboardInterrupt"}

\* C18 witness: with capacity 0 three cycles have been skipped, the last
\* one after a read that returned a full block.
C18_Witness ==
    /\ capacity = 0
    /\ pc = "read"
    /\ cycle = 3
    /\ Len(audio_data) = chunk_size
    /\ \E i \in DOMAIN reads : reads[i] = <<>>
    /\ ring_buffer = <<>>
    /\ ~fft_result.valid


\* Packets p and q agree in everything but the smoothed level: header, raw
\* level, peak, bands, magnitude sum and peak frequency
SameButSmoothed(p, q) ==
    /\ SubSeq(p, 1, 12) = SubSeq(q, 1, 12)
    /\ SubSeq(p, 17, 44) = SubSeq(q, 17, 44)

\* The packet just built in a cycle whose read was empty repeats the packet
\* of the cycle before it, when that cycle sent one, except for the
\* smoothed level, which is the current previous_smoothed_level
StalePacketRepeats ==
    (pc = "send" /\ audio_data = <<>>) =>
        /\ \A i \in CallsOf(cycle - 1) : SameButSmoothed(udp_packet, net[i].data)
        /\ SubSeq(udp_packet, 13, 16) = PackF(previous_smoothed_level)

\* C19: a read that returns nothing leaves the window as it was; when the
\* analysis of that cycle succeeds, previous_smoothed_level is still updated
\* with the raw level of the unchanged window, its distance to that raw
\* level shrinking to 0.8 of what it was; the packet of the cycle has the
\* bands, raw level and peak of the packet before it and the new smoothed
\* level.
C19_StaleWindowStillSmooths ==
    /\ [][ /\ (pc = "read" /\ pc' = "fft" /\ audio_data' = <<>>)
                 => ring_buffer' = ring_buffer
           /\ (pc = "smooth" /\ pc' = "pack" /\ audio_data = <<>>)
                 => RatAdd(previous_smoothed_level', RatNeg(fft_result.raw_level))
                      = RatMul(<<4, 5>>, RatAdd(previous_smoothed_level,
                                                RatNeg(fft_result.raw_level)))
         ]_vars
    /\ []StalePacketRepeats

\* C19 witness: two empty reads in a row after a block that is not silence;
\* both cycles built a packet, the two packets differ, and only in the
\* smoothed level.
C19_Witness ==
    /\ pc = "send"
    /\ cycle = 3
    /\ reads[2] = <<>>
    /\ reads[3] = <<>>
    /\ fft_result.raw_level # <<0, 1>>
    /\ previous_smoothed_level # fft_result.raw_level
    /\ CallsOf(2) # {}
    /\ \A i \in CallsOf(2) :
          /\ net[i].data # udp_packet
          /\ SameButSmoothed(udp_packet, net[i].data)

====
